---- MODULE Spec2Model ----
(***************************************************************************)
(* Model of esm/sdk/forge.py: the Forge inference client.                  *)
(*                                                                         *)
(* Python values are tagged records, so that None, lists, tensors, strings *)
(* and dicts stay distinguishable: a JSON body is what json.dumps /        *)
(* response.json() make of these values (None <-> null, list <-> array,    *)
(* dict <-> object).  A message (str) built by an f-string is the tuple of *)
(* its pieces.                                                             *)
(***************************************************************************)
EXTENDS Integers, Sequences, FiniteSets, TLC

VARIABLES
    \* ---- one single-item call (generate / encode / decode / forward_and_sample)
    op,         \* which public method is called
    input,      \* its input object
    config,     \* its GenerationConfig / SamplingConfig (None when it takes none)
    response,   \* what requests.post does for this call
    pc,         \* "call" before the method ran, "done" after
    request,    \* the payload handed to requests.post(json=...)
    posted,     \* what __post gave back to the method (body or fault)
    outcome,    \* what the method gave back to its caller (value or fault)
    stdout,     \* lines printed
    \* ---- one batch_generate call
    inputs,     \* list of inputs
    configs,    \* list of configs
    responses,  \* what requests.post does for item i
    bpc,        \* position of the calling thread in batch_generate
    futures,    \* per item: state of the executor future
    running,    \* items currently occupying a pool thread
    completed,  \* items in the order their futures completed
    gathered,   \* what asyncio.gather returned
    results     \* what batch_generate returned

callVars  == <<op, input, config, response, pc, request, posted, outcome, stdout>>
batchVars == <<inputs, configs, responses, bpc, futures, running, completed, gathered, results>>
vars      == <<op, input, config, response, pc, request, posted, outcome, stdout,
               inputs, configs, responses, bpc, futures, running, completed, gathered, results>>

----------------------------------------------------------------------------
(* Python / JSON values *)

None       == [tag |-> "None"]
Str(s)     == [tag |-> "str", val |-> s]
Num(n)     == [tag |-> "num", val |-> n]
NaN        == [tag |-> "nan"]
List(s)    == [tag |-> "list", val |-> s]
Tensor(s)  == [tag |-> "tensor", val |-> s]
Scalar(n)  == [tag |-> "tensor0", val |-> n]
Dict(f)    == [tag |-> "dict", val |-> f]

IsNone(x)  == x.tag = "None"
Keys(d)    == DOMAIN d.val
Has(d, k)  == k \in DOMAIN d.val
EmptyDict  == Dict([k \in {} |-> None])

\* outcome of running a piece of Python: a value, or a raised exception
Return(v)  == [kind |-> "return", val |-> v]
Raise(e)   == [kind |-> "raise", exc |-> e]
Exc(t, a)  == [tag |-> "exception", type |-> t, arg |-> a]

\* str(e): a KeyError prints the repr of the missing key, the others their message
str(e) == IF e.type = "KeyError" THEN <<"'", e.arg, "'">> ELSE e.arg

----------------------------------------------------------------------------
(* esm.sdk.api / esm.utils value objects *)

FunctionAnnotation(l, s, e) ==
    [tag |-> "FunctionAnnotation", label |-> l, start |-> s, end |-> e]

to_tuple(x) == List(<<Str(x.label), Num(x.start), Num(x.end)>>)

FunctionAnnotationFromTuple(t) ==
    FunctionAnnotation(t.val[1].val, t.val[2].val, t.val[3].val)

ESMProteinError(msg) == [tag |-> "ESMProteinError", error_msg |-> msg]

ESMProtein(seq, ss, sasa, fa, coords, plddt, ptm) ==
    [tag |-> "ESMProtein", sequence |-> seq, secondary_structure |-> ss,
     sasa |-> sasa, function_annotations |-> fa, coordinates |-> coords,
     plddt |-> plddt, ptm |-> ptm]

ESMProteinTensor(seq, struct, ss, sasa, fn, ra, coords) ==
    [tag |-> "ESMProteinTensor", sequence |-> seq, structure |-> struct,
     secondary_structure |-> ss, sasa |-> sasa, function |-> fn,
     residue_annotations |-> ra, coordinates |-> coords]

ForwardTrackData(seq, struct, ss, sasa, fn) ==
    [tag |-> "ForwardTrackData", sequence |-> seq, structure |-> struct,
     secondary_structure |-> ss, sasa |-> sasa, function |-> fn]

ForwardAndSampleOutput(pt, lp, p, en, tl, tt) ==
    [tag |-> "ForwardAndSampleOutput", protein_tensor |-> pt, logprob |-> lp,
     prob |-> p, entropy |-> en, topk_logprob |-> tl, topk_tokens |-> tt]

\* maybe_list: None stays None; a tensor becomes a plain list, its NaN entries
\* becoming None when convert_nan_to_none is set
maybe_list(x, convert_nan_to_none) ==
    IF IsNone(x) THEN None
    ELSE List([i \in 1..Len(x.val) |->
                 IF convert_nan_to_none /\ x.val[i].tag = "nan" THEN None
                 ELSE x.val[i]])

\* maybe_tensor: None stays None; a list (or a number) becomes a tensor, its
\* None entries becoming NaN when convert_none_to_nan is set
maybe_tensor(x, convert_none_to_nan) ==
    IF IsNone(x) THEN None
    ELSE IF x.tag = "num" THEN Scalar(x.val)
    ELSE Tensor([i \in 1..Len(x.val) |->
                   IF convert_none_to_nan /\ x.val[i].tag = "None" THEN NaN
                   ELSE x.val[i]])

\* torch.tensor(v) of a plain list
torch_tensor(v) == Tensor(v.val)

\* torch.exp, element-wise, in thousandths over the log-probabilities used here
ExpTable(n) == CASE n = 0 -> 1000 [] n = -1 -> 368 [] n = -2 -> 135 [] OTHER -> 0
torch_exp(t) == Tensor([i \in 1..Len(t.val) |-> Num(ExpTable(t.val[i].val))])

----------------------------------------------------------------------------
(* module-level helper *)

\* variant: only None is turned into None
list_to_function_annotations_keep_empty(l) ==
    IF IsNone(l) THEN None
    ELSE List([i \in 1..Len(l.val) |-> FunctionAnnotationFromTuple(l.val[i])])

list_to_function_annotations(l) ==
    IF IsNone(l) \/ Len(l.val) <= 0 THEN None
    ELSE List([i \in 1..Len(l.val) |-> FunctionAnnotationFromTuple(l.val[i])])

----------------------------------------------------------------------------
(* Transport adapter: ESM3ForgeInferenceClient.__post *)

Model == "esm3-open"

\* variant: "data" is promoted whenever it is there
lift_data_always(body) ==
    IF Has(body, "data") THEN body.val["data"] ELSE body

\* the envelope rule alone (the three lines after response.json())
lift_data(body) ==
    IF ~Has(body, "outputs") /\ Has(body, "data") THEN body.val["data"] ELSE body

\* variant: the status of the response is not looked at
post_ignoring_status(endpoint, resp) ==
    IF resp.kind = "exc" THEN Raise(resp.exc)
    ELSE Return(lift_data(resp.json))

post(endpoint, resp) ==
    IF resp.kind = "exc" THEN Raise(resp.exc)
    ELSE IF ~resp.ok
         THEN Raise(Exc("RuntimeError", <<"Failure in ", endpoint, ": ", resp.text>>))
         ELSE Return(lift_data(resp.json))

\* first key of the ordered list ks that the dict d lacks (0 when none)
FirstMissing(d, ks) ==
    IF \E i \in 1..Len(ks) : ~Has(d, ks[i])
    THEN CHOOSE i \in 1..Len(ks) : ~Has(d, ks[i]) /\ \A j \in 1..(i-1) : Has(d, ks[j])
    ELSE 0

----------------------------------------------------------------------------
(* Request builders *)

\* the dict req / tracks built from an ESMProtein (generate and encode)
protein_inputs(x) ==
    LET ks == {"sequence", "secondary_structure", "sasa", "coordinates"}
              \cup (IF ~IsNone(x.function_annotations) THEN {"function"} ELSE {})
    IN Dict([k \in ks |->
               CASE k = "sequence"            -> x.sequence
                 [] k = "secondary_structure" -> x.secondary_structure
                 [] k = "sasa"                -> x.sasa
                 [] k = "function"            -> List([i \in 1..Len(x.function_annotations.val) |->
                                                        to_tuple(x.function_annotations.val[i])])
                 [] k = "coordinates"         -> maybe_list(x.coordinates, TRUE)])

TensorKeys == {"sequence", "structure", "secondary_structure", "sasa", "function",
               "coordinates", "residue_annotation"}

\* variant: tracks that are None are left out of the dict
tensor_inputs_omitting(x) ==
    LET f == [k \in TensorKeys |->
                CASE k = "sequence"            -> maybe_list(x.sequence, FALSE)
                  [] k = "structure"           -> maybe_list(x.structure, FALSE)
                  [] k = "secondary_structure" -> maybe_list(x.secondary_structure, FALSE)
                  [] k = "sasa"                -> maybe_list(x.sasa, FALSE)
                  [] k = "function"            -> maybe_list(x.function, FALSE)
                  [] k = "coordinates"         -> maybe_list(x.coordinates, TRUE)
                  [] k = "residue_annotation"  -> maybe_list(x.residue_annotations, FALSE)]
    IN Dict([k \in {j \in TensorKeys : ~IsNone(f[j])} |-> f[k]])

\* the dict req / tokens built from an ESMProteinTensor
\* (generate_tensor, forward_and_sample and decode)
tensor_inputs(x) ==
    Dict([k \in TensorKeys |->
            CASE k = "sequence"            -> maybe_list(x.sequence, FALSE)
              [] k = "structure"           -> maybe_list(x.structure, FALSE)
              [] k = "secondary_structure" -> maybe_list(x.secondary_structure, FALSE)
              [] k = "sasa"                -> maybe_list(x.sasa, FALSE)
              [] k = "function"            -> maybe_list(x.function, FALSE)
              [] k = "coordinates"         -> maybe_list(x.coordinates, TRUE)
              [] k = "residue_annotation"  -> maybe_list(x.residue_annotations, FALSE)])

generation_request(req, cfg) ==
    [model |-> Model, inputs |-> req, track |-> cfg.track,
     invalid_ids |-> cfg.invalid_ids, schedule |-> cfg.schedule,
     num_steps |-> cfg.num_steps, temperature |-> cfg.temperature,
     top_p |-> cfg.top_p,
     condition_on_coordinates_only |-> cfg.condition_on_coordinates_only]

generate_protein_request(x, cfg)        == generation_request(protein_inputs(x), cfg)
generate_protein_tensor_request(x, cfg) == generation_request(tensor_inputs(x), cfg)
encode_request(x) == [inputs |-> protein_inputs(x), model |-> Model]
decode_request(x) == [model |-> Model, inputs |-> tensor_inputs(x)]

SampleTracks == <<"sequence", "structure", "secondary_structure", "sasa", "function">>

do_track(sc, t) ==
    IF IsNone(sc[t]) THEN None
    ELSE Dict([f \in {"temperature", "top_p", "only_sample_masked_tokens",
                      "invalid_ids", "topk_logprobs"} |-> sc[t].val[f]])

forward_and_sample_request(x, sc) ==
    [model |-> Model, inputs |-> tensor_inputs(x),
     sampling_config |-> Dict([t \in {SampleTracks[i] : i \in 1..5} |-> do_track(sc, t)]),
     embedding_config |-> None]

forward_and_sample_warns(sc) ==
    sc.return_mean_embedding \/ sc.return_per_residue_embeddings

EmbeddingWarning ==
    "Warning: return_mean_embedding and return_per_residue_embeddings are not supported by Forge."

----------------------------------------------------------------------------
(* Response parsers *)

ProteinOutputKeys ==
    <<"sequence", "secondary_structure", "sasa", "function", "coordinates", "plddt", "ptm">>

\* ESMProtein(...) built from data["outputs"][...] (generate and decode):
\* the keyword arguments are evaluated in order, the first missing key raises
parse_protein(data) ==
    IF ~Has(data, "outputs") THEN Raise(Exc("KeyError", "outputs"))
    ELSE LET o == data.val["outputs"]
             m == FirstMissing(o, ProteinOutputKeys)
         IN IF m # 0 THEN Raise(Exc("KeyError", ProteinOutputKeys[m]))
            ELSE Return(ESMProtein(o.val["sequence"],
                                   o.val["secondary_structure"],
                                   o.val["sasa"],
                                   list_to_function_annotations(o.val["function"]),
                                   maybe_tensor(o.val["coordinates"], TRUE),
                                   maybe_tensor(o.val["plddt"], FALSE),
                                   maybe_tensor(o.val["ptm"], FALSE)))

field_to_tensor(data, field, convert_none_to_nan) ==
    IF ~Has(data.val["outputs"], field) THEN None
    ELSE maybe_tensor(data.val["outputs"].val[field], convert_none_to_nan)

\* ESMProteinTensor(...) built through _field_to_tensor (generate_tensor)
parse_generate_tensor(data) ==
    IF ~Has(data, "outputs") THEN Raise(Exc("KeyError", "outputs"))
    ELSE Return(ESMProteinTensor(field_to_tensor(data, "sequence", FALSE),
                                 field_to_tensor(data, "structure", FALSE),
                                 field_to_tensor(data, "secondary_structure", FALSE),
                                 field_to_tensor(data, "sasa", FALSE),
                                 field_to_tensor(data, "function", FALSE),
                                 field_to_tensor(data, "residue_annotation", FALSE),
                                 field_to_tensor(data, "coordinates", TRUE)))

EncodeOutputKeys ==
    <<"sequence", "structure", "coordinates", "secondary_structure", "sasa",
      "function", "residue_annotation">>

\* ESMProteinTensor(...) built from data["outputs"][...] (encode)
parse_encode(data) ==
    IF ~Has(data, "outputs") THEN Raise(Exc("KeyError", "outputs"))
    ELSE LET o == data.val["outputs"]
             m == FirstMissing(o, EncodeOutputKeys)
         IN IF m # 0 THEN Raise(Exc("KeyError", EncodeOutputKeys[m]))
            ELSE Return(ESMProteinTensor(maybe_tensor(o.val["sequence"], FALSE),
                                         maybe_tensor(o.val["structure"], FALSE),
                                         maybe_tensor(o.val["secondary_structure"], FALSE),
                                         maybe_tensor(o.val["sasa"], FALSE),
                                         maybe_tensor(o.val["function"], FALSE),
                                         maybe_tensor(o.val["residue_annotation"], FALSE),
                                         maybe_tensor(o.val["coordinates"], TRUE)))

\* variant: a null statistic becomes an empty tensor
get_default(data, k, field) ==
    IF IsNone(data.val[k]) THEN None
    ELSE LET v == data.val[k].val[field]
         IN IF ~IsNone(v) THEN torch_tensor(v) ELSE Tensor(<<>>)

\* forward_and_sample.get; only called once get_raises is known to be "" 
get(data, k, field) ==
    IF IsNone(data.val[k]) THEN None
    ELSE LET v == data.val[k].val[field]
         IN IF ~IsNone(v) THEN torch_tensor(v) ELSE None

\* the key get(k, field) raises KeyError for ("" when it does not raise)
get_raises(data, k, field) ==
    IF ~Has(data, k) THEN k
    ELSE IF ~IsNone(data.val[k]) /\ ~Has(data.val[k], field) THEN field
    ELSE ""

get_track(data, field) ==
    ForwardTrackData(get(data, "sequence", field), get(data, "structure", field),
                     get(data, "secondary_structure", field), get(data, "sasa", field),
                     get(data, "function", field))

\* fn(x) for the function passed to operate_on_track
call(fn, x) == CASE fn = "torch.exp" -> torch_exp(x)

apply(x, fn) == IF ~IsNone(x) THEN call(fn, x) ELSE None

operate_on_track(track, fn) ==
    ForwardTrackData(apply(track.sequence, fn), apply(track.structure, fn),
                     apply(track.secondary_structure, fn), apply(track.sasa, fn),
                     apply(track.function, fn))

\* the statistics in the order the body of forward_and_sample reads them
SampleFields == <<"tokens", "logprobs", "entropy", "topk_logprobs", "topk_tokens">>

\* the 25 (field, track) reads in program order
SampleReads == [n \in 1..25 |-> [field |-> SampleFields[((n - 1) \div 5) + 1],
                                 k     |-> SampleTracks[((n - 1) % 5) + 1]]]

parse_forward_and_sample(data) ==
    LET bad == {n \in 1..25 : get_raises(data, SampleReads[n].k, SampleReads[n].field) # ""}
    IN IF bad # {}
       THEN LET n == CHOOSE m \in bad : \A j \in bad : m <= j
            IN Raise(Exc("KeyError", get_raises(data, SampleReads[n].k, SampleReads[n].field)))
       ELSE LET tokens == ESMProteinTensor(get(data, "sequence", "tokens"),
                                           get(data, "structure", "tokens"),
                                           get(data, "secondary_structure", "tokens"),
                                           get(data, "sasa", "tokens"),
                                           get(data, "function", "tokens"),
                                           None, None)
                logprob == get_track(data, "logprobs")
            IN Return(ForwardAndSampleOutput(tokens, logprob,
                                             operate_on_track(logprob, "torch.exp"),
                                             get_track(data, "entropy"),
                                             get_track(data, "topk_logprobs"),
                                             get_track(data, "topk_tokens")))

----------------------------------------------------------------------------
(* The five operations, as functions of the input and of what the transport does *)

generate_protein(x, cfg, resp) ==
    LET r == post("generate", resp)
    IN IF r.kind = "raise"
       THEN IF r.exc.type = "RuntimeError"
            THEN Return(ESMProteinError(str(r.exc)))
            ELSE r
       ELSE parse_protein(r.val)

generate_protein_tensor(x, cfg, resp) ==
    LET r == post("generate_tensor", resp)
    IN IF r.kind = "raise"
       THEN IF r.exc.type = "RuntimeError"
            THEN Return(ESMProteinError(str(r.exc)))
            ELSE r
       ELSE parse_generate_tensor(r.val)

\* variant: the override does not look at the track
override_always(x, cfg, out) ==
    IF out.tag = "ESMProtein" /\ x.tag = "ESMProtein"
    THEN [out EXCEPT !.function_annotations = x.function_annotations]
    ELSE out

\* the override at the end of generate
override(x, cfg, out) ==
    IF out.tag = "ESMProtein" /\ x.tag = "ESMProtein"
       /\ cfg.track \notin {"function", "residue_annotations"}
    THEN [out EXCEPT !.function_annotations = x.function_annotations]
    ELSE out

generate(x, cfg, resp) ==
    IF x.tag \notin {"ESMProtein", "ESMProteinTensor"}
    THEN Return(ESMProteinError(<<"Unknown input type ", x.tag>>))
    ELSE LET r == IF x.tag = "ESMProtein" THEN generate_protein(x, cfg, resp)
                  ELSE generate_protein_tensor(x, cfg, resp)
         IN IF r.kind = "raise" THEN r ELSE Return(override(x, cfg, r.val))

forward_and_sample(x, sc, resp) ==
    LET r == post("forward_and_sample", resp)
    IN IF r.kind = "raise" THEN r ELSE parse_forward_and_sample(r.val)

encode(x, resp) ==
    LET r == post("encode", resp)
    IN IF r.kind = "raise" THEN r ELSE parse_encode(r.val)

decode(x, resp) ==
    LET r == post("decode", resp)
    IN IF r.kind = "raise" THEN r ELSE parse_protein(r.val)

----------------------------------------------------------------------------
(* Bounded input spaces *)

MaxAnn   == 2      \* longest function-annotation list
MaxBatch == 3      \* largest batch
PoolSize == 2      \* threads of the default executor

A1 == FunctionAnnotation("kinase", 1, 2)
A2 == FunctionAnnotation("binding", 2, 3)

SeqsUpTo(S, n) == UNION {[1..m -> S] : m \in 0..n}

\* in-memory annotation lists, and the lists of tuples the service may return
AnnLists  == {List(s) : s \in SeqsUpTo({A1, A2}, MaxAnn)}
WireLists == {List([i \in 1..Len(l.val) |-> to_tuple(l.val[i])]) : l \in AnnLists}

SeqStr    == Str("MKV")
SsStr     == Str("HHC")
SasaList  == List(<<Num(10), Num(20)>>)
Coords    == Tensor(<<Num(1), NaN>>)
CoordsWire == List(<<Num(1), None>>)
Tokens    == Tensor(<<Num(0), Num(5)>>)
TokensWire == List(<<Num(0), Num(5)>>)

Opt(v) == {None, v}

ProteinInputs ==
    {ESMProtein(s, IF b THEN SsStr ELSE None, IF b THEN SasaList ELSE None, fa, c, None, None) :
        s \in Opt(SeqStr), b \in BOOLEAN, fa \in {None} \cup AnnLists, c \in Opt(Coords)}

TensorInputs ==
    {ESMProteinTensor(s, r, r, r, r, r, c) :
        s \in Opt(Tokens), r \in Opt(Tokens), c \in Opt(Coords)}

OtherInput == [tag |-> "str", val |-> "MKV"]

GenerationConfig(t) ==
    [track |-> t, invalid_ids |-> List(<<>>), schedule |-> "cosine", num_steps |-> 8,
     temperature |-> 1, top_p |-> 1, condition_on_coordinates_only |-> TRUE]

GenTracks == {"sequence", "function", "residue_annotations"}
GenerationConfigs == {GenerationConfig(t) : t \in GenTracks}

SamplingTrackConfig ==
    Dict([f \in {"temperature", "top_p", "only_sample_masked_tokens",
                 "invalid_ids", "topk_logprobs"} |->
            CASE f = "temperature" -> Num(1) [] f = "top_p" -> Num(1)
              [] f = "only_sample_masked_tokens" -> Num(1)
              [] f = "invalid_ids" -> List(<<>>) [] f = "topk_logprobs" -> Num(0)])

SamplingConfigs ==
    {[sequence |-> t, structure |-> None, secondary_structure |-> None,
      sasa |-> None, function |-> t,
      return_per_residue_embeddings |-> p, return_mean_embedding |-> m] :
        t \in Opt(SamplingTrackConfig), p \in BOOLEAN, m \in BOOLEAN}

\* ---- what the service may answer

Ok(body)    == [kind |-> "http", ok |-> TRUE, text |-> "", json |-> body]
NotOk(text) == [kind |-> "http", ok |-> FALSE, text |-> text, json |-> EmptyDict]
Broken(msg) == [kind |-> "exc", exc |-> Exc("ConnectionError", <<msg>>)]

Failures == {NotOk("quota exceeded"), NotOk(""), Broken("timed out")}

Without(d, k) == Dict([j \in Keys(d) \ {k} |-> d.val[j]])

\* "outputs" of generate / decode
ProteinOutputsFull ==
    {Dict([k \in {ProteinOutputKeys[i] : i \in 1..7} |->
             CASE k = "function" -> f
               [] ~b -> None
               [] k = "sequence" -> SeqStr
               [] k = "secondary_structure" -> SsStr
               [] k = "sasa" -> SasaList
               [] k = "coordinates" -> CoordsWire
               [] k = "plddt" -> List(<<Num(90), Num(80)>>)
               [] k = "ptm" -> Num(7)]) :
        f \in {None} \cup WireLists, b \in BOOLEAN}

FullProteinOutputs ==
    CHOOSE d \in ProteinOutputsFull :
        ~IsNone(d.val["sequence"]) /\ ~IsNone(d.val["function"])
        /\ Len(d.val["function"].val) = 1 /\ d.val["function"].val[1] = to_tuple(A1)

ProteinOutputs ==
    ProteinOutputsFull
    \cup {Without(FullProteinOutputs, ProteinOutputKeys[i]) : i \in 1..7}

\* "outputs" of generate_tensor / encode
TensorOutputsFull ==
    {Dict([k \in TensorKeys |->
             IF ~b THEN None
             ELSE IF k = "coordinates" THEN CoordsWire ELSE TokensWire]) : b \in BOOLEAN}

FullTensorOutputs == CHOOSE d \in TensorOutputsFull : ~IsNone(d.val["sequence"])

TensorOutputs ==
    TensorOutputsFull
    \cup {Without(d, k) : d \in TensorOutputsFull, k \in TensorKeys}
    \cup {EmptyDict}

\* the four shapes of a body around an "outputs" object
Plain(x)   == Dict([k \in {"outputs"} |-> x])
Wrapped(x) == Dict([k \in {"data"} |-> Plain(x)])
Both(x)    == Dict([k \in {"outputs", "data"} |-> IF k = "outputs" THEN x ELSE Plain(EmptyDict)])
Envelopes(X) == {Plain(x) : x \in X} \cup {Wrapped(x) : x \in X}
                \cup {Both(x) : x \in X} \cup {EmptyDict}

\* per-track entries of a forward_and_sample body: the tracks of T are null, the
\* statistics of S are null in every other track
StatValue(f) ==
    CASE f = "tokens" -> List(<<Num(3), Num(4)>>)
      [] f = "logprobs" -> List(<<Num(0), Num(-2)>>)
      [] f = "entropy" -> List(<<Num(1), Num(2)>>)
      [] f = "topk_logprobs" -> List(<<Num(-1), Num(-2)>>)
      [] f = "topk_tokens" -> List(<<Num(3), Num(9)>>)

SampleFieldSet == {SampleFields[i] : i \in 1..5}
SampleTrackSet == {SampleTracks[i] : i \in 1..5}

SampleBody(T, S) ==
    Dict([k \in SampleTrackSet |->
            IF k \in T THEN None
            ELSE Dict([f \in SampleFieldSet |-> IF f \in S THEN None ELSE StatValue(f)])])

SampleBodies ==
    {SampleBody(T, S) : T \in SUBSET SampleTrackSet,
                        S \in {{}, SampleFieldSet} \cup {{f} : f \in SampleFieldSet}}

SampleEnvelopes ==
    SampleBodies \cup {Dict([k \in {"data"} |-> b]) : b \in SampleBodies}
    \cup {Plain(b) : b \in SampleBodies} \cup {Wrapped(b) : b \in SampleBodies}

ProteinResponses == {Ok(b) : b \in Envelopes(ProteinOutputs)} \cup Failures
TensorResponses  == {Ok(b) : b \in Envelopes(TensorOutputs)} \cup Failures
SampleResponses  == {Ok(b) : b \in SampleEnvelopes} \cup Failures

SampleInputs == {ESMProteinTensor(Tokens, None, None, None, None, None, c) : c \in Opt(Coords)}

\* the calls explored: method, input, configuration, transport behaviour
Ops == {"generate", "encode", "decode", "forward_and_sample"}

InputsFor(o) ==
    CASE o = "generate" -> ProteinInputs \cup TensorInputs \cup {OtherInput}
      [] o = "encode" -> ProteinInputs
      [] o = "decode" -> TensorInputs
      [] o = "forward_and_sample" -> SampleInputs

ConfigsFor(o) ==
    CASE o = "generate" -> GenerationConfigs
      [] o = "forward_and_sample" -> SamplingConfigs
      [] OTHER -> {None}

ResponsesFor(o, x) ==
    CASE o = "generate" /\ x.tag = "ESMProtein" -> ProteinResponses
      [] o = "generate" /\ x.tag = "ESMProteinTensor" -> TensorResponses
      [] o = "generate" -> Failures
      [] o = "encode" -> TensorResponses
      [] o = "decode" -> ProteinResponses
      [] o = "forward_and_sample" -> SampleResponses

----------------------------------------------------------------------------
(* Batch state before any batch_generate call *)

NoBatch ==
    /\ inputs = <<>> /\ configs = <<>> /\ responses = <<>>
    /\ bpc = "idle" /\ futures = <<>> /\ running = {} /\ completed = <<>>
    /\ gathered = None /\ results = None

(* One single-item call *)

InitCall ==
    /\ \E o \in Ops : \E x \in InputsFor(o) : \E c \in ConfigsFor(o) : \E r \in ResponsesFor(o, x) :
          /\ op = o /\ input = x /\ config = c /\ response = r
    /\ pc = "call" /\ request = None /\ posted = None /\ outcome = None /\ stdout = <<>>
    /\ NoBatch

Generate ==
    /\ pc = "call" /\ op = "generate"
    /\ request' = (IF input.tag = "ESMProtein" THEN generate_protein_request(input, config)
                   ELSE IF input.tag = "ESMProteinTensor"
                        THEN generate_protein_tensor_request(input, config)
                        ELSE None)
    /\ posted' = (IF input.tag = "ESMProtein" THEN post("generate", response)
                  ELSE IF input.tag = "ESMProteinTensor" THEN post("generate_tensor", response)
                  ELSE None)
    /\ outcome' = generate(input, config, response)
    /\ pc' = "done"
    /\ UNCHANGED <<op, input, config, response, stdout>>
    /\ UNCHANGED batchVars

ForwardAndSample ==
    /\ pc = "call" /\ op = "forward_and_sample"
    /\ stdout' = (IF forward_and_sample_warns(config) THEN Append(stdout, EmbeddingWarning)
                  ELSE stdout)
    /\ request' = forward_and_sample_request(input, config)
    /\ posted' = post("forward_and_sample", response)
    /\ outcome' = forward_and_sample(input, config, response)
    /\ pc' = "done"
    /\ UNCHANGED <<op, input, config, response>>
    /\ UNCHANGED batchVars

Encode ==
    /\ pc = "call" /\ op = "encode"
    /\ request' = encode_request(input)
    /\ posted' = post("encode", response)
    /\ outcome' = encode(input, response)
    /\ pc' = "done"
    /\ UNCHANGED <<op, input, config, response, stdout>>
    /\ UNCHANGED batchVars

Decode ==
    /\ pc = "call" /\ op = "decode"
    /\ request' = decode_request(input)
    /\ posted' = post("decode", response)
    /\ outcome' = decode(input, response)
    /\ pc' = "done"
    /\ UNCHANGED <<op, input, config, response, stdout>>
    /\ UNCHANGED batchVars

NextCall == Generate \/ ForwardAndSample \/ Encode \/ Decode

SpecCall == InitCall /\ [][NextCall]_vars

----------------------------------------------------------------------------
(* Properties of a single-item call (checked under SpecCall) *)

Done       == pc = "done"
Posted     == Done /\ "kind" \in DOMAIN posted
Answered   == Posted /\ posted.kind = "return"
Returned   == Done /\ outcome.kind = "return"
HttpFailed == Done /\ response.kind = "http" /\ ~response.ok
EndpointOf == IF op = "generate" /\ input.tag = "ESMProteinTensor" THEN "generate_tensor" ELSE op

\* C3: on a non-success HTTP status generate (either input kind) returns an error
\* value whose message carries the endpoint name and the response text, while
\* encode, decode and forward_and_sample raise a fault carrying the same.
C3_TransportFailure ==
    (HttpFailed /\ input.tag \in {"ESMProtein", "ESMProteinTensor"}) =>
        IF op = "generate"
        THEN outcome = Return(ESMProteinError(<<"Failure in ", EndpointOf, ": ", response.text>>))
        ELSE /\ outcome.kind = "raise"
             /\ outcome.exc.arg = <<"Failure in ", EndpointOf, ": ", response.text>>

C3_Witness ==
    /\ HttpFailed /\ op = "generate" /\ input.tag = "ESMProteinTensor"
    /\ response.text = "quota exceeded"
    /\ Returned /\ outcome.val.tag = "ESMProteinError"

\* C4: a successful generate on an ESMProtein gives the input's annotations when
\* the track is neither "function" nor "residue_annotations", and the decoded
\* response annotations otherwise; tensors and error values are left alone.
C4_AnnotationOverride ==
    (Returned /\ op = "generate") =>
        IF input.tag = "ESMProtein" /\ outcome.val.tag = "ESMProtein"
        THEN IF config.track \notin {"function", "residue_annotations"}
             THEN outcome.val.function_annotations = input.function_annotations
             ELSE outcome.val.function_annotations =
                      list_to_function_annotations(posted.val.val["outputs"].val["function"])
        ELSE /\ "function_annotations" \notin DOMAIN outcome.val
             /\ (outcome.val.tag = "ESMProteinTensor" => outcome = parse_generate_tensor(posted.val))

C4_Witness ==
    /\ Returned /\ op = "generate" /\ input.tag = "ESMProtein"
    /\ config.track = "sequence"
    /\ outcome.val.tag = "ESMProtein"
    /\ input.function_annotations = List(<<A2>>)
    /\ posted.val.val["outputs"].val["function"] = List(<<to_tuple(A1)>>)
    /\ outcome.val.function_annotations = List(<<A2>>)

\* the result of the called method for another transport answer
ResultFor(resp) ==
    CASE op = "generate" -> generate(input, config, resp)
      [] op = "encode" -> encode(input, resp)
      [] op = "decode" -> decode(input, resp)
      [] op = "forward_and_sample" -> forward_and_sample(input, config, resp)

IsWrapped(body) ==
    /\ Keys(body) = {"data"}
    /\ Keys(body.val["data"]) = {"outputs"}

\* C5: a body {data: {outputs: X}} gives the same result as {outputs: X}, in every
\* operation; "data" is promoted only when the body has no "outputs" key and has a
\* "data" key.
C5_Envelope ==
    (Posted /\ response.kind = "http" /\ response.ok) =>
        /\ posted.kind = "return"
        /\ posted.val = (IF "outputs" \notin Keys(response.json) /\ "data" \in Keys(response.json)
                         THEN response.json.val["data"] ELSE response.json)
        /\ IsWrapped(response.json) =>
              outcome = ResultFor(Ok(Plain(response.json.val["data"].val["outputs"])))

C5_Witness ==
    /\ Returned /\ op = "decode" /\ response.kind = "http" /\ response.ok
    /\ IsWrapped(response.json)
    /\ outcome.val.tag = "ESMProtein" /\ outcome.val.sequence = SeqStr

\* in-memory field behind a key of "inputs"
FieldOf(k) ==
    CASE k = "function" /\ input.tag = "ESMProtein" -> "function_annotations"
      [] k = "residue_annotation" -> "residue_annotations"
      [] OTHER -> k

HasRequest == Done /\ "inputs" \in DOMAIN request

NullEntriesOnlyInCoordinates ==
    \A k \in Keys(request.inputs) :
        request.inputs.val[k].tag = "list" =>
            \A i \in 1..Len(request.inputs.val[k].val) :
                IsNone(request.inputs.val[k].val[i]) => k = "coordinates"

\* C6 as claimed: an absent track is omitted from "inputs" and never sent as null.
C6_AbsentOmitted ==
    HasRequest =>
        /\ \A k \in Keys(request.inputs) : ~IsNone(request.inputs.val[k])
        /\ NullEntriesOnlyInCoordinates

\* C6 amended: every track key of the operation is in "inputs", an absent track
\* being sent as null; only the "function" key built from an ESMProtein is left
\* out when its annotations are absent.  Other nulls only inside coordinates.
C6_AbsentIsNull ==
    HasRequest =>
        /\ Keys(request.inputs) =
              (IF input.tag = "ESMProtein"
               THEN {"sequence", "secondary_structure", "sasa", "coordinates"}
                    \cup (IF IsNone(input.function_annotations) THEN {} ELSE {"function"})
               ELSE TensorKeys)
        /\ \A k \in Keys(request.inputs) :
              IsNone(request.inputs.val[k]) <=> IsNone(input[FieldOf(k)])
        /\ NullEntriesOnlyInCoordinates

C6_Witness ==
    /\ HasRequest /\ op = "decode"
    /\ IsNone(input.sequence) /\ ~IsNone(input.coordinates)
    /\ "sequence" \in Keys(request.inputs) /\ IsNone(request.inputs.val["sequence"])
    /\ request.inputs.val["coordinates"] = CoordsWire

TupleOf(a) == List(<<Str(a.label), Num(a.start), Num(a.end)>>)

\* the parsed annotations come straight from the response (no override)
AnnotationsDecoded ==
    /\ Returned /\ Answered /\ outcome.val.tag = "ESMProtein"
    /\ \/ op = "decode"
       \/ op = "generate" /\ config.track \in {"function", "residue_annotations"}

EncodesInOrder ==
    /\ Has(request.inputs, "function")
    /\ request.inputs.val["function"].tag = "list"
    /\ Len(request.inputs.val["function"].val) = Len(input.function_annotations.val)
    /\ \A i \in 1..Len(input.function_annotations.val) :
          request.inputs.val["function"].val[i] = TupleOf(input.function_annotations.val[i])

DecodesInOrder(w, fa) ==
    /\ ~IsNone(fa)
    /\ Len(fa.val) = Len(w.val)
    /\ \A i \in 1..Len(w.val) : TupleOf(fa.val[i]) = w.val[i]

\* C7 as claimed: absent and empty annotation lists are both omitted from the
\* request; null decodes to absent; a non-empty list is rebuilt in order.
C7_EmptyOmitted ==
    /\ (HasRequest /\ input.tag = "ESMProtein") =>
          IF IsNone(input.function_annotations) \/ Len(input.function_annotations.val) = 0
          THEN ~Has(request.inputs, "function")
          ELSE EncodesInOrder
    /\ AnnotationsDecoded =>
          LET w == posted.val.val["outputs"].val["function"]
          IN IF IsNone(w) THEN IsNone(outcome.val.function_annotations)
             ELSE Len(w.val) > 0 => DecodesInOrder(w, outcome.val.function_annotations)

\* C7 amended: only an absent list is omitted, an empty list is sent as an empty
\* array; null and the empty array both decode to absent; a non-empty list is
\* rebuilt in order.
C7_EmptySentAsArray ==
    /\ (HasRequest /\ input.tag = "ESMProtein") =>
          IF IsNone(input.function_annotations)
          THEN ~Has(request.inputs, "function")
          ELSE EncodesInOrder
    /\ AnnotationsDecoded =>
          LET w == posted.val.val["outputs"].val["function"]
          IN IF IsNone(w) \/ Len(w.val) = 0 THEN IsNone(outcome.val.function_annotations)
             ELSE DecodesInOrder(w, outcome.val.function_annotations)

C7_Witness ==
    /\ HasRequest /\ op = "generate" /\ input.tag = "ESMProtein"
    /\ input.function_annotations = List(<<>>)
    /\ request.inputs.val["function"] = List(<<>>)
    /\ AnnotationsDecoded
    /\ posted.val.val["outputs"].val["function"] = List(<<>>)
    /\ IsNone(outcome.val.function_annotations)

\* keys the parser of the called method reads from "outputs"
ParsedKeys ==
    IF op \in {"decode"} \/ (op = "generate" /\ input.tag = "ESMProtein")
    THEN {ProteinOutputKeys[i] : i \in 1..7}
    ELSE TensorKeys

OutputField(k) ==
    CASE k = "function" /\ outcome.val.tag = "ESMProtein" -> "function_annotations"
      [] k = "residue_annotation" -> "residue_annotations"
      [] OTHER -> k

\* C8: when "outputs" lacks a track's key, the parsers of generate_tensor, encode,
\* generate and decode do not fail and leave that track absent.
C8_MissingKeyTolerated ==
    (Answered /\ op \in {"generate", "encode", "decode"} /\ Has(posted.val, "outputs")) =>
        /\ outcome.kind = "return"
        /\ \A k \in ParsedKeys \ Keys(posted.val.val["outputs"]) :
              (op = "generate" /\ k = "function" /\ input.tag = "ESMProtein"
               /\ config.track \notin {"function", "residue_annotations"})
              \/ IsNone(outcome.val[OutputField(k)])

Bundle(f) ==
    CASE f = "tokens" -> outcome.val.protein_tensor
      [] f = "logprobs" -> outcome.val.logprob
      [] f = "entropy" -> outcome.val.entropy
      [] f = "topk_logprobs" -> outcome.val.topk_logprob
      [] f = "topk_tokens" -> outcome.val.topk_tokens

\* C9: each (track, statistic) of the forward_and_sample result is absent exactly
\* when the response has null for the track or for that statistic, and is the
\* response's value otherwise; prob is absent exactly where logprob is, and its
\* element-wise exponential elsewhere; asking for embeddings only prints the
\* warning and sends embedding_config as null.
C9_SampleBundles ==
    (Done /\ op = "forward_and_sample") =>
        /\ stdout = (IF config.return_mean_embedding \/ config.return_per_residue_embeddings
                     THEN <<EmbeddingWarning>> ELSE <<>>)
        /\ IsNone(request.embedding_config)
        /\ (posted.kind = "return" /\ SampleTrackSet \subseteq Keys(posted.val)) =>
              /\ outcome.kind = "return"
              /\ \A t \in SampleTrackSet, f \in SampleFieldSet :
                    LET e == posted.val.val[t]
                        v == Bundle(f)[t]
                    IN /\ IsNone(v) <=> (IsNone(e) \/ IsNone(e.val[f]))
                       /\ ~IsNone(v) => v.val = e.val[f].val
              /\ \A t \in SampleTrackSet :
                    LET l == outcome.val.logprob[t]
                        p == outcome.val.prob[t]
                    IN /\ IsNone(p) <=> IsNone(l)
                       /\ ~IsNone(p) =>
                             /\ Len(p.val) = Len(l.val)
                             /\ \A i \in 1..Len(l.val) : p.val[i] = Num(ExpTable(l.val[i].val))

C9_Witness ==
    /\ Returned /\ op = "forward_and_sample"
    /\ config.return_mean_embedding
    /\ stdout = <<EmbeddingWarning>>
    /\ IsNone(posted.val.val["structure"])
    /\ IsNone(outcome.val.prob.structure)
    /\ ~IsNone(posted.val.val["sequence"]) /\ IsNone(posted.val.val["sequence"].val["entropy"])
    /\ IsNone(outcome.val.entropy.sequence)
    /\ outcome.val.logprob.sequence = Tensor(<<Num(0), Num(-2)>>)
    /\ outcome.val.prob.sequence = Tensor(<<Num(1000), Num(135)>>)

----------------------------------------------------------------------------
(* batch_generate: the calling thread, the executor's pool threads, gather *)

P1 == ESMProtein(SeqStr, None, None, List(<<A2>>), Coords, None, None)
T1 == ESMProteinTensor(Tokens, None, None, None, None, None, Coords)

Item(x, c, r) == [input |-> x, config |-> c, response |-> r]

\* the (input, config) pairs of a batch with what the transport does for each:
\* every item succeeds or fails deterministically
BatchItems ==
    { Item(P1, GenerationConfig("sequence"), Ok(Plain(FullProteinOutputs))),
      Item(T1, GenerationConfig("function"), Ok(Wrapped(FullTensorOutputs))),
      Item(P1, GenerationConfig("function"), NotOk("quota exceeded")),
      Item(T1, GenerationConfig("sequence"), Broken("timed out")),
      Item(P1, GenerationConfig("sequence"), Ok(Plain(Without(FullProteinOutputs, "ptm")))) }

N == Len(inputs)

Future(st, r) == [state |-> st, result |-> r]
Pending == [kind |-> "pending"]

AllDone(futs) == \A i \in 1..Len(futs) : futs[i].state = "done"

\* asyncio.gather(*futures, return_exceptions): when the awaiting coroutine resumes
gather_ready(futs, return_exceptions) ==
    \/ AllDone(futs)
    \/ /\ ~return_exceptions
       /\ \E i \in 1..Len(futs) : futs[i].state = "done" /\ futs[i].result.kind = "raise"

\* asyncio.gather(*futures, return_exceptions): what the await evaluates to, the
\* futures being read in the order given
gather(futs, order, return_exceptions) ==
    LET raised == {i \in 1..Len(order) :
                      futs[order[i]].state = "done" /\ futs[order[i]].result.kind = "raise"}
    IN IF ~return_exceptions /\ raised # {}
       THEN Raise(futs[order[CHOOSE i \in raised : \A j \in raised : i <= j]].result.exc)
       ELSE Return([i \in 1..Len(order) |->
                      CASE futs[order[i]].result.kind = "raise"  -> futs[order[i]].result.exc
                        [] futs[order[i]].result.kind = "return" -> futs[order[i]].result.val
                        [] OTHER -> None])

\* variant: gather without return_exceptions resumes at the first fault
async_generate_ready_first_fault(futs) == gather_ready(futs, FALSE)

\* the await in _async_generate resumes once every future is done
async_generate_ready(futs) == gather_ready(futs, TRUE)

\* variant: results listed as they complete
async_generate_as_completed(futs, done_order) ==
    gather(futs, done_order, TRUE)

\* variant: gather without return_exceptions
async_generate_raising(futs, done_order) ==
    gather(futs, [i \in 1..Len(futs) |-> i], FALSE)

\* the value of _async_generate: results listed in submission order
async_generate(futs, done_order) ==
    gather(futs, [i \in 1..Len(futs) |-> i], TRUE)

IsBaseException(r) == r.tag = "exception"

\* the list comprehension batch_generate returns
reduce_results(rs) ==
    [i \in 1..Len(rs) |-> IF ~IsBaseException(rs[i]) THEN rs[i] ELSE ESMProteinError(str(rs[i]))]

NoCall ==
    /\ op = "batch_generate" /\ input = None /\ config = None /\ response = None
    /\ pc = "idle" /\ request = None /\ posted = None /\ outcome = None /\ stdout = <<>>

Init ==
    /\ \E n \in 1..MaxBatch : \E items \in [1..n -> BatchItems] :
          /\ inputs = [i \in 1..n |-> items[i].input]
          /\ configs = [i \in 1..n |-> items[i].config]
          /\ responses = [i \in 1..n |-> items[i].response]
    /\ bpc = "submit" /\ futures = <<>> /\ running = {} /\ completed = <<>>
    /\ gathered = None /\ results = None
    /\ NoCall

\* loop.run_in_executor(None, self.generate, protein, config) for the next pair
Submit ==
    /\ bpc = "submit" /\ Len(futures) < N
    /\ futures' = Append(futures, Future("queued", Pending))
    /\ UNCHANGED <<inputs, configs, responses, bpc, running, completed, gathered, results>>
    /\ UNCHANGED callVars

\* the list of futures is complete: await asyncio.gather(...)
Await ==
    /\ bpc = "submit" /\ Len(futures) = N
    /\ bpc' = "await"
    /\ UNCHANGED <<inputs, configs, responses, futures, running, completed, gathered, results>>
    /\ UNCHANGED callVars

\* a pool thread takes the oldest queued work item and calls self.generate
Start(i) ==
    /\ i \in 1..Len(futures) /\ futures[i].state = "queued"
    /\ \A j \in 1..(i - 1) : futures[j].state # "queued"
    /\ Cardinality(running) < PoolSize
    /\ futures' = [futures EXCEPT ![i].state = "running"]
    /\ running' = running \cup {i}
    /\ UNCHANGED <<inputs, configs, responses, bpc, completed, gathered, results>>
    /\ UNCHANGED callVars

\* self.generate returns or raises on its pool thread: the future is resolved
Finish(i) ==
    /\ i \in running
    /\ futures' = [futures EXCEPT ![i] = Future("done", generate(inputs[i], configs[i], responses[i]))]
    /\ running' = running \ {i}
    /\ completed' = Append(completed, i)
    /\ UNCHANGED <<inputs, configs, responses, bpc, gathered, results>>
    /\ UNCHANGED callVars

\* loop.run_until_complete(_async_generate()) comes back
Gather ==
    /\ bpc = "await" /\ async_generate_ready(futures)
    /\ gathered' = async_generate(futures, completed)
    /\ bpc' = "gathered"
    /\ UNCHANGED <<inputs, configs, responses, futures, running, completed, results>>
    /\ UNCHANGED callVars

\* batch_generate returns the reduced list (or lets a fault of the loop through)
ReturnResults ==
    /\ bpc = "gathered"
    /\ results' = (IF gathered.kind = "raise" THEN gathered
                   ELSE Return(reduce_results(gathered.val)))
    /\ bpc' = "returned"
    /\ UNCHANGED <<inputs, configs, responses, futures, running, completed, gathered>>
    /\ UNCHANGED callVars

Next ==
    \/ Submit
    \/ Await
    \/ \E i \in 1..MaxBatch : Start(i)
    \/ \E i \in 1..MaxBatch : Finish(i)
    \/ Gather
    \/ ReturnResults

Spec == Init /\ [][Next]_vars

\* pool threads and the event loop keep running and every transport call returns
\* or fails: as long as some step of the batch can be taken, one is taken
FairSpec == Spec /\ WF_vars(Next)

----------------------------------------------------------------------------
(* Properties of batch_generate *)

BatchReturned == bpc = "returned"

\* what a slot holds for an outcome of generate
SlotValue(o) == IF o.kind = "return" THEN o.val ELSE ESMProteinError(str(o.exc))

\* C1: the result has length N and slot i holds the outcome of
\* generate(inputs[i], configs[i]), whatever the completion order.
C1_SlotOrder ==
    BatchReturned =>
        /\ results.kind = "return"
        /\ Len(results.val) = N
        /\ \A i \in 1..N :
              results.val[i] = SlotValue(generate(inputs[i], configs[i], responses[i]))

C1_Witness ==
    /\ BatchReturned /\ N = 3
    /\ completed = <<2, 3, 1>>
    /\ results.kind = "return"
    /\ results.val[1].tag = "ESMProtein"
    /\ results.val[2].tag = "ESMProteinTensor"
    /\ results.val[3].tag = "ESMProteinError"

Succeeds(i) ==
    /\ inputs[i].tag \in {"ESMProtein", "ESMProteinTensor"}
    /\ responses[i].kind = "http" /\ responses[i].ok
    /\ futures[i].result.kind = "return"

\* C2: batch_generate never raises; a fault raised for item i becomes an error
\* value carrying its message in slot i, and a slot whose item succeeded holds its
\* success object whatever happened to the other items.
C2_NeverRaises ==
    BatchReturned =>
        /\ results.kind = "return"
        /\ \A i \in 1..N :
              /\ futures[i].result.kind = "raise" =>
                    /\ results.val[i].tag = "ESMProteinError"
                    /\ results.val[i].error_msg = str(futures[i].result.exc)
              /\ Succeeds(i) =>
                    /\ results.val[i].tag \in {"ESMProtein", "ESMProteinTensor"}
                    /\ results.val[i] = futures[i].result.val

C2_Witness ==
    /\ BatchReturned /\ N >= 2
    /\ \E i, j \in 1..N :
          /\ futures[i].result.kind = "raise"
          /\ futures[i].result.exc.type = "KeyError"
          /\ results.val[i] = ESMProteinError(<<"'", "ptm", "'">>)
          /\ Succeeds(j) /\ results.val[j].tag = "ESMProtein"

\* C10: batch_generate returns only once all N items have been dispatched and
\* are done, and it does return, every item having by then run to its value or
\* its fault whatever happened to the others.
C10_NoCancellation ==
    /\ [](BatchReturned => (Len(futures) = N /\ AllDone(futures)))
    /\ <>(BatchReturned /\ \A i \in 1..N : futures[i].result.kind \in {"return", "raise"})

C10_Witness ==
    /\ BatchReturned /\ N = 3 /\ AllDone(futures)
    /\ futures[1].result.kind = "raise"
    /\ futures[2].result.kind = "return" /\ futures[3].result.kind = "return"
    /\ completed[1] = 1
====
